---- MODULE Spec2Model ----
(***************************************************************************)
(* The wire pipeline of iracing-teleport (src/src/protocol.rs): the        *)
(* fragmenting Sender, the datagrams it emits, and the reassembling        *)
(* Receiver.  Datagrams are byte sequences: a 20-byte packed header        *)
(* followed by the fragment body, exactly as Sender::send lays them out    *)
(* and Receiver::process_datagram reads them back.                         *)
(*                                                                         *)
(* The datagram size is scaled down (MAX_DATAGRAM_SIZE is 9000 in the      *)
(* source) so that multi-fragment payloads stay small enough to enumerate; *)
(* every size computed from it (MAX_PAYLOAD_SIZE, the fragment count, the  *)
(* buffer offsets) is computed as the source computes it.                  *)
(***************************************************************************)
EXTENDS Integers, Sequences, FiniteSets, TLC

(* ------------------------------------------------------------------------ *)
(* Bounds of the model                                                      *)
(* ------------------------------------------------------------------------ *)

\* protocol.rs:4 sets 9000; scaled so that a fragment body holds 2 bytes.
MAX_DATAGRAM_SIZE == 22

\* longest payload handed to Sender::send (besides the oversized one)
MaxLen == 5

\* number of Sender::send calls in one behaviour
MaxSends == 2

\* number of process_datagram calls recorded in one round trip
MaxDeliver == 4

\* number of times Telemetry::open succeeds in one run of the Source
MaxAttach == 2

(* ------------------------------------------------------------------------ *)
(* Program constants                                                        *)
(* ------------------------------------------------------------------------ *)

\* size_of::<DatagramHeader>() of the packed struct: 4 + 2 + 2 + 4 + 8
HEADER_SIZE == 20

MAX_PAYLOAD_SIZE == MAX_DATAGRAM_SIZE - HEADER_SIZE

U16_MAX == 65535

None == [some |-> FALSE]

Some(v) == [some |-> TRUE, value |-> v]

(* ------------------------------------------------------------------------ *)
(* Integer helpers                                                          *)
(* ------------------------------------------------------------------------ *)

\* a division that rounds up and yields at least 1
div_ceil_at_least_one(a, b) == IF a = 0 THEN 1 ELSE (a + b - 1) \div b

\* usize::div_ceil
div_ceil(a, b) == (a + b - 1) \div b

min(a, b) == IF a < b THEN a ELSE b

\* `x as u16`: truncation to 16 bits
as_u16(x) == x % (U16_MAX + 1)

\* `len as u32`: after the fragment-count check len is at most
\* 65535 * MAX_PAYLOAD_SIZE, below 2^32, so the cast keeps the value
as_u32(x) == x

\* The u32 sequence number and the u64 source time are kept as their
\* little-endian bytes (4 and 8 of them), the form they have in the header;
\* 2^32 - 1 is <<255, 255, 255, 255>>.
RECURSIVE wrapping_inc(_)
wrapping_inc(b) ==
    IF Len(b) = 0 THEN <<>>
    ELSE IF b[1] < 255 THEN <<b[1] + 1>> \o Tail(b)
    ELSE <<0>> \o wrapping_inc(Tail(b))

\* u32::wrapping_add(x, 1)
wrapping_add(x) == wrapping_inc(x)

(* ------------------------------------------------------------------------ *)
(* Byte views                                                               *)
(* ------------------------------------------------------------------------ *)

RECURSIVE Pow256(_)
Pow256(k) == IF k = 0 THEN 1 ELSE 256 * Pow256(k - 1)

\* the in-memory bytes of an unsigned integer of w bytes (little-endian host)
to_bytes(v, w) == [i \in 1..w |-> (v \div Pow256(i - 1)) % 256]

\* the unsigned integer stored in a run of bytes (little-endian host)
RECURSIVE from_bytes(_)
from_bytes(b) ==
    IF Len(b) = 0 THEN 0 ELSE b[1] + 256 * from_bytes(Tail(b))

\* bytes[lo .. hi) with 0-based offsets, as a Rust slice
Slice(b, lo, hi) == SubSeq(b, lo + 1, hi)

\* dst[at .. at + len(src)].copy_from_slice(src)
copy_from_slice(dst, at, src) ==
    [i \in 1..Len(dst) |->
        IF i > at /\ i <= at + Len(src) THEN src[i - at] ELSE dst[i]]

\* the packed DatagramHeader viewed as HEADER_SIZE raw bytes
header_bytes(h) ==
    h.sequence \o to_bytes(h.fragment, 2) \o to_bytes(h.fragments, 2)
        \o to_bytes(h.payload_size, 4) \o h.source_time_us

\* the first HEADER_SIZE bytes of a datagram viewed as a DatagramHeader
parse_header(d) ==
    [sequence       |-> Slice(d, 0, 4),
     fragment       |-> from_bytes(Slice(d, 4, 6)),
     fragments      |-> from_bytes(Slice(d, 6, 8)),
     payload_size   |-> from_bytes(Slice(d, 8, 12)),
     source_time_us |-> Slice(d, 12, 20)]

(* ------------------------------------------------------------------------ *)
(* Sender                                                                   *)
(* ------------------------------------------------------------------------ *)

\* Sender::new with the sequence the Sender has reached
NewSender(seq) == [sequence |-> seq, buffer |-> [i \in 1..MAX_DATAGRAM_SIZE |-> 0]]

Ok(v) == [ok |-> TRUE, value |-> v]

Err(e) == [ok |-> FALSE, error |-> e]

\* fragment indices counted from 1
FragmentFieldFromOne(i) == as_u16(i + 1)

\* header.fragment = i as u16 of the loop of Sender::send
FragmentField(i) == as_u16(i)

\* header.payload_size = len as u32
PayloadSizeField(len) == as_u32(len)

\* the bounds of the i-th fragment body in data
FragmentSize(len, offset) == min(len - offset, MAX_PAYLOAD_SIZE)

\* a sequence that never advances
SameSequence(seq) == seq

\* what send does to the sequence once every fragment was emitted
NextSequence(seq) == wrapping_add(seq)

\* the limit on the fragment count
TooManyFragments(fragments) == fragments > U16_MAX

\* io::Error::new(io::ErrorKind::InvalidData, "Compressed data too large")
InvalidData == [kind |-> "InvalidData"]

\* the io::Error the i-th send_fn call returns when it fails
EmitError(i) == [kind |-> "Other", call |-> i]

\* an early return that has advanced the sequence already
RejectedAfterAdvance(s) ==
    [sender  |-> [s EXCEPT !.sequence = wrapping_add(s.sequence)],
     ret     |-> Err(InvalidData),
     emitted |-> <<>>,
     calls   |-> 0]

\* the early return on too many fragments: nothing emitted, the Sender as it was
Rejected(s) ==
    [sender |-> s, ret |-> Err(InvalidData), emitted |-> <<>>, calls |-> 0]

\* a failed send that advances the sequence like a successful one
EmitFailedAfterAdvance(s, r) ==
    [sender  |-> [sequence |-> wrapping_add(s.sequence), buffer |-> r.buffer],
     ret     |-> Err(EmitError(r.calls - 1)),
     emitted |-> r.emitted,
     calls   |-> r.calls]

\* the return through `?` when send_fn failed in call r.calls - 1: the error of
\* send_fn, the sequence not advanced
EmitFailed(s, r) ==
    [sender  |-> [s EXCEPT !.buffer = r.buffer],
     ret     |-> Err(EmitError(r.calls - 1)),
     emitted |-> r.emitted,
     calls   |-> r.calls]

\* a sink that puts each datagram in front of the ones it took before
EmitFirst(out, datagram) == <<datagram>> \o out

\* send_fn(datagram) returning Ok: the sink takes the datagram after the ones
\* it took before
Emit(out, datagram) == Append(out, datagram)

\* The loop `for i in 0..fragments` of Sender::send from iteration i on:
\* buf is self.buffer, out the datagrams send_fn has accepted so far; failAt is
\* Some(i) when the i-th send_fn call returns Err, None when none does.
RECURSIVE send_loop(_, _, _, _, _, _, _, _)
send_loop(i, offset, fragments, header, data, buf, out, failAt) ==
    IF i >= fragments
    THEN [buffer |-> buf, emitted |-> out, calls |-> i, failed |-> FALSE]
    ELSE
        LET h == [header EXCEPT !.fragment = FragmentField(i)]
            buf1 == copy_from_slice(buf, 0, header_bytes(h))
            fragment_size == FragmentSize(Len(data), offset)
            start == offset
            end == start + fragment_size
            buf2 == copy_from_slice(buf1, HEADER_SIZE, Slice(data, start, end))
            datagram == Slice(buf2, 0, HEADER_SIZE + fragment_size)
        IN  IF failAt = Some(i)
            THEN [buffer |-> buf2, emitted |-> out, calls |-> i + 1, failed |-> TRUE]
            ELSE send_loop(i + 1, offset + fragment_size, fragments, header, data,
                           buf2, Emit(out, datagram), failAt)

\* Sender::send(data, source_time_us, send_fn): the Sender afterwards, the
\* returned io::Result, the datagrams send_fn accepted and the number of
\* send_fn calls.
send(s, data, source_time_us, failAt) ==
    LET len == Len(data)
        fragments == div_ceil(len, MAX_PAYLOAD_SIZE)
    IN  IF TooManyFragments(fragments)
        THEN Rejected(s)
        ELSE
            LET header == [sequence       |-> s.sequence,
                           fragments      |-> as_u16(fragments),
                           fragment       |-> 0,
                           payload_size   |-> PayloadSizeField(len),
                           source_time_us |-> source_time_us]
                r == send_loop(0, 0, fragments, header, data, s.buffer, <<>>, failAt)
            IN  IF r.failed
                THEN EmitFailed(s, r)
                ELSE [sender  |-> [sequence |-> NextSequence(s.sequence),
                                   buffer   |-> r.buffer],
                      ret     |-> Ok(as_u16(fragments)),
                      emitted |-> r.emitted,
                      calls   |-> r.calls]

(* ------------------------------------------------------------------------ *)
(* Receiver                                                                 *)
(* ------------------------------------------------------------------------ *)

ZeroTime == [i \in 1..8 |-> 0]

\* Receiver::new: nothing received
NewReceiver ==
    [buffer              |-> <<>>,
     fragments           |-> <<>>,
     current_sequence    |-> None,
     total_fragments     |-> 0,
     received_fragments  |-> 0,
     payload_size        |-> 0,
     last_source_time_us |-> ZeroTime]

\* a resize that leaves the vector one element longer than asked
resized_longer(n, v) == [i \in 1..(n + 1) |-> v]

\* Vec::clear followed by Vec::resize(n, v)
resized(n, v) == [i \in 1..n |-> v]

\* a start that keeps the count of the fragments received so far
start_new_sequence_keeping_count(r, header) ==
    [r EXCEPT !.current_sequence   = Some(header.sequence),
              !.total_fragments    = header.fragments,
              !.payload_size       = header.payload_size,
              !.fragments          = resized(header.fragments, FALSE),
              !.buffer             = resized(header.payload_size, 0)]

\* Receiver::start_new_sequence
start_new_sequence(r, header) ==
    [r EXCEPT !.current_sequence   = Some(header.sequence),
              !.total_fragments    = header.fragments,
              !.received_fragments = 0,
              !.payload_size       = header.payload_size,
              !.fragments          = resized(header.fragments, FALSE),
              !.buffer             = resized(header.payload_size, 0)]

\* a latch that takes the source time from fragment 1 instead of fragment 0
latch_source_time_from_second(r, header) ==
    IF header.fragment = 1
    THEN [r EXCEPT !.last_source_time_us = header.source_time_us]
    ELSE r

\* the latch of the source time: only fragment 0 carries it
latch_source_time(r, header) ==
    IF header.fragment = 0
    THEN [r EXCEPT !.last_source_time_us = header.source_time_us]
    ELSE r

\* a > b for unsigned integers given as little-endian bytes
RECURSIVE greater(_, _)
greater(a, b) ==
    IF Len(a) = 0 THEN FALSE
    ELSE IF a[Len(a)] # b[Len(b)] THEN a[Len(a)] > b[Len(b)]
    ELSE greater(SubSeq(a, 1, Len(a) - 1), SubSeq(b, 1, Len(b) - 1))

\* a comparison that lets only a newer sequence number start a reassembly
is_different_sequence_if_newer(r, header) ==
    IF r.current_sequence.some
    THEN greater(header.sequence, r.current_sequence.value)
    ELSE TRUE

\* a comparison that only looks whether a reassembly is under way
is_different_sequence_unless_started(r, header) == ~r.current_sequence.some

is_different_sequence(r, header) ==
    IF r.current_sequence.some
    THEN header.sequence # r.current_sequence.value
    ELSE TRUE

\* a flag raised for fragment 0 of valid headers only
sequence_changed_if_valid(header) ==
    header.fragment = 0 /\ header.fragment < header.fragments

sequence_changed_of(header) == header.fragment = 0

\* the length check: no room for a header
shorter_than_header(data) == Len(data) < HEADER_SIZE

\* a duplicate test that never finds the bit set
already_received_never(r, header) == FALSE

\* the duplicate test: the bit of the fragment is set
already_received(r, header) == r.fragments[header.fragment + 1]

\* the validation of the fragment index against the header's own count
invalid_fragment(header) ==
    header.fragment >= header.fragments \/ header.fragments = 0

\* the offset of a fragment in the reassembly buffer
buffer_offset_of(header) == header.fragment * MAX_PAYLOAD_SIZE

\* a bounds check that lets every fragment through
out_of_buffer_never(r, buffer_offset, fragment_size) == FALSE

\* the bounds check before the copy into the reassembly buffer
out_of_buffer(r, buffer_offset, fragment_size) ==
    buffer_offset + fragment_size > Len(r.buffer)

\* a completion test that fires as soon as the last fragment index has arrived
all_received_when_last_arrived(r) ==
    r.total_fragments > 0 /\ r.fragments[r.total_fragments]

\* the completion test
all_received(r) == r.received_fragments = r.total_fragments

\* a completion that leaves current_sequence as it is
after_completion_keeping(r) == r

\* what completion does to current_sequence
after_completion(r) == [r EXCEPT !.current_sequence = None]

\* The result of one call: the Receiver afterwards, the returned pair
\* (ret, sequence_changed), whether the call copied the datagram's body into
\* the reassembly buffer, and whether it panicked instead of returning (an
\* index or a slice out of range).
Returned(r, ret, changed, copied) ==
    [receiver |-> r, ret |-> ret, sequence_changed |-> changed,
     copied |-> copied, panicked |-> FALSE]

Panicked(r, copied) ==
    [receiver |-> r, ret |-> None, sequence_changed |-> FALSE,
     copied |-> copied, panicked |-> TRUE]

\* a drop of a short datagram that also gives up the reassembly under way
short_datagram_resetting(r) ==
    Returned([r EXCEPT !.current_sequence = None], None, FALSE, FALSE)

\* the return on a datagram that cannot hold a header
short_datagram(r) == Returned(r, None, FALSE, FALSE)

\* Receiver::process_datagram
process_datagram(r0, data) ==
    IF shorter_than_header(data)
    THEN short_datagram(r0)
    ELSE
        LET header == parse_header(data)
            r1 == latch_source_time(r0, header)
            sequence_changed == sequence_changed_of(header)
            r2 == IF is_different_sequence(r1, header)
                  THEN start_new_sequence(r1, header)
                  ELSE r1
        IN  IF invalid_fragment(header)
            THEN Returned(r2, None, sequence_changed, FALSE)
            ELSE IF header.fragment + 1 > Len(r2.fragments)
            THEN Panicked(r2, FALSE)
            ELSE IF already_received(r2, header)
            THEN Returned(r2, None, sequence_changed, FALSE)
            ELSE
                LET fragment_size == Len(data) - HEADER_SIZE
                    buffer_offset == buffer_offset_of(header)
                IN  IF out_of_buffer(r2, buffer_offset, fragment_size)
                    THEN Returned(r2, None, sequence_changed, FALSE)
                    ELSE
                        LET r3 == [r2 EXCEPT
                                     !.buffer = copy_from_slice(
                                         r2.buffer, buffer_offset,
                                         Slice(data, HEADER_SIZE, Len(data))),
                                     !.fragments[header.fragment + 1] = TRUE,
                                     !.received_fragments =
                                         r2.received_fragments + 1]
                        IN  IF all_received(r3)
                            THEN IF r3.payload_size > Len(r3.buffer)
                                 THEN Panicked(r3, TRUE)
                                 ELSE Returned(after_completion(r3),
                                          Some(Slice(r3.buffer, 0, r3.payload_size)),
                                          sequence_changed, TRUE)
                            ELSE Returned(r3, None, sequence_changed, TRUE)

(* ------------------------------------------------------------------------ *)
(* Inputs                                                                   *)
(* ------------------------------------------------------------------------ *)

\* create_test_data of the tests, started at byte value seed
TestData(len, seed) == [i \in 1..len |-> (seed + i - 1) % 256]

\* The k-th send call (k from 0) carries data of its own seed, so the payloads
\* of different calls differ in every byte.
SeedOf(k) == (1 + 100 * k) % 256

\* the source time of the k-th send call: a value that fills more than one
\* byte of the u64 and, for every other call, 0 as in the tests
TimeOf(k) == IF k % 2 = 1 THEN ZeroTime ELSE <<k + 1, 1, 0, 0, 0, 0, 0, 255>>

\* a payload one byte too long for 65535 fragments
OversizedData == [i \in 1..(U16_MAX * MAX_PAYLOAD_SIZE + 1) |-> 0]

\* what the k-th send call may be given
Inputs(k) ==
    {[data |-> TestData(len, SeedOf(k)), t |-> TimeOf(k)] : len \in 0..MaxLen}
    \cup {[data |-> OversizedData, t |-> ZeroTime]}

\* the fragment index the test test_invalid_fragment_number writes into a header
BAD_FRAGMENT == 99

\* a datagram with a header field rewritten, or cut short
with_sequence(d, seq) == copy_from_slice(d, 0, seq)

with_fragment(d, v) == copy_from_slice(d, 4, to_bytes(v, 2))

with_fragments(d, v) == copy_from_slice(d, 6, to_bytes(v, 2))

truncated(d, n) == Slice(d, 0, min(n, Len(d)))

\* The datagrams a faulty network or a foreign sender may make of a datagram d
\* of the wire: cut below the header size, an index beyond the count, a count
\* of 0, a count that disagrees with the other fragments, and each of these
\* under another sequence number.
Corrupted(d) ==
    LET h == parse_header(d)
        other == wrapping_add(h.sequence)
        bad == {with_fragment(d, BAD_FRAGMENT),
                with_fragments(d, 0),
                with_fragments(d, h.fragments + 1)}
    IN  {truncated(d, HEADER_SIZE - 1)}
        \cup bad
        \cup {with_sequence(x, other) : x \in bad \cup {d}}

with_payload_size(d, v) == copy_from_slice(d, 8, to_bytes(v, 4))

\* The datagrams an arbitrary sender may make of a datagram d of the wire,
\* besides the corrupted ones: a payload size one byte smaller or larger,
\* a body one byte longer, the next fragment index, and an index that is
\* valid only for the larger fragment count the header claims.
Forged(d) ==
    LET h == parse_header(d)
        made == {with_payload_size(d, h.payload_size + 1),
                 with_payload_size(d, IF h.payload_size > 0
                                      THEN h.payload_size - 1 ELSE 0),
                 d \o <<0>>,
                 with_fragment(d, h.fragment + 1),
                 with_fragment(with_fragments(d, h.fragments + 1), h.fragments)}
    IN  Corrupted(d) \cup made

\* Sender::new starts at sequence 0.
FirstSequence == <<0, 0, 0, 0>>

\* 2^32 - 1: the sequence of a Sender after 2^32 - 1 successful sends, the
\* state from which the next send wraps
LastSequence == <<255, 255, 255, 255>>

(* ------------------------------------------------------------------------ *)
(* The drivers: shutdown channel, Source and Target at start                *)
(* ------------------------------------------------------------------------ *)

\* DISCONNECT_TIMEOUT of source.rs, in seconds
DISCONNECT_TIMEOUT_S == 10

DISCONNECT_TIMEOUT_MS == 1000 * DISCONNECT_TIMEOUT_S

\* the timeout the Source gives each wait_for_data
WAIT_INTERVAL_MS == 200

\* The mpsc channel run() gets the receiving half of: the messages queued, and
\* whether the sending half still exists.  notified and at record that the
\* one notification was sent and the position of the driver at that moment.
NewChannel == [queued |-> 0, tx_alive |-> TRUE, notified |-> FALSE, at |-> "none"]

\* source::run after the socket is bound: about to call try_connect_telemetry
\* for the first time.  telemetry is the provider the Source holds (the
\* ordinal of the open that made it), held the providers opened and not yet
\* dropped, since_data the milliseconds since last_data_time; op, prev and
\* measured describe the last step: what it did, the provider held before it,
\* and the elapsed time a timed-out wait measured; late_waits and late_sends
\* count the wait_for_data and Sender::send calls begun after the
\* notification was sent, ticks the wait_for_data calls that returned true
\* (counted up to MaxSends).
SourceAtStart ==
    [pc         |-> "connect",
     telemetry  |-> None,
     held       |-> {},
     attaches   |-> 0,
     since_data |-> 0,
     op         |-> "start",
     prev       |-> None,
     measured   |-> 0,
     late_waits |-> 0,
     late_sends |-> 0,
     ticks      |-> 0]

\* TELEMETRY_TIMEOUT of target.rs, in seconds
TELEMETRY_TIMEOUT_S == 10

TELEMETRY_TIMEOUT_MS == 1000 * TELEMETRY_TIMEOUT_S

\* the read timeout target::run sets on its socket, in seconds
RECV_TIMEOUT_S == 1

RECV_TIMEOUT_MS == 1000 * RECV_TIMEOUT_S

\* what one iteration of the loop of target::run did, for an iteration that
\* did nothing yet: op names the outcome of recv_from, before is the provider
\* held when the iteration began, age the time since last_update it ended
\* with, complete whether process_datagram returned a payload, dup whether
\* the datagram had been received before; created, wrote, decompressed,
\* signals and updated tell whether it created a provider, wrote into the
\* region, decompressed successfully, how often it called signal_data_ready
\* and whether it set last_update and counted the update.
NoIteration(op) ==
    [op |-> op, before |-> None, age |-> 0, complete |-> FALSE, dup |-> FALSE,
     created |-> FALSE, wrote |-> FALSE, decompressed |-> FALSE,
     signals |-> 0, updated |-> FALSE]

\* target::run after the socket is set up: no provider (telemetry, when a
\* provider is held, is its region: the payload last decompressed into it
\* and whether that decompression succeeded), last_update = now,
\* sequence_start_time None.  late_recvs counts the recv_from calls begun
\* after the notification was sent; it is the last iteration.
TargetAtStart ==
    [pc                  |-> "check",
     telemetry           |-> None,
     since_update        |-> 0,
     sequence_start_time |-> FALSE,
     late_recvs          |-> 0,
     it                  |-> NoIteration("start")]

(* ------------------------------------------------------------------------ *)
(* MockTelemetry at creation (telemetry/mock.rs)                            *)
(* ------------------------------------------------------------------------ *)

\* the threads that call wait_for_data on one provider
MaxThreads == 2

\* the wait_for_data calls of all threads together
MaxWaits == 2

\* the signal_data_ready calls on the provider
MaxSignals == 2

\* the time the clock advances in one step, in milliseconds
TICK_MS == 10

\* the steps of the clock
MaxTicks == 4

\* SHORT_WAIT and LONG_WAIT of the tests of mock.rs, in milliseconds
SHORT_WAIT == 20

LONG_WAIT == 40

\* the timeouts wait_for_data is called with
Timeouts == {SHORT_WAIT, LONG_WAIT}

Threads == 1..MaxThreads

\* State::default()
NewState == [ready |-> FALSE, last_signal |-> None, waiters |-> 0]

\* a thread outside wait_for_data that has not called it yet.  Inside a
\* call, start and timeout are its locals, timed_out what wait_timeout
\* reported and present the signal_data_ready call (by number) made while
\* the thread was blocked in wait_timeout; ret and by are the result of the
\* last call that returned and its present.
NewThread ==
    [pc |-> "idle", calls |-> 0, start |-> 0, timeout |-> 0,
     timed_out |-> FALSE, present |-> None, ret |-> None, by |-> None]

\* MockTelemetry::create and the threads that share the provider: now is
\* the clock in milliseconds, signals and trues count the signal_data_ready
\* calls and the wait_for_data calls that returned true, released[k] the
\* waits that were blocked when the k-th signal was given and returned true.
NewMock ==
    [state    |-> NewState,
     threads  |-> [t \in Threads |-> NewThread],
     now      |-> 0,
     signals  |-> 0,
     trues    |-> 0,
     released |-> [k \in 1..MaxSignals |-> 0]]

(* ------------------------------------------------------------------------ *)
(* State                                                                    *)
(* ------------------------------------------------------------------------ *)

VARIABLES
    sender,      \* the Sender: sequence, scratch buffer
    wire,        \* every datagram send_fn accepted, in emission order
    sends,       \* one record per Sender::send call, in call order
    ok_sends,    \* number of successful sends of the Sender's life (5 bytes)
    receiver,    \* the Receiver
    last,        \* the last process_datagram call: input, state before, result
    delivered,   \* the positions of wire handed to the Receiver so far
    log,         \* the calls of a round trip: position of wire, result
    shutdown,    \* the mpsc channel of the shutdown notification
    source,      \* source::run: position, provider, time since the last data
    target,      \* target::run: position, provider, time since the last update
    mock         \* a MockTelemetry, the threads that use it and the clock

vars == <<sender, wire, sends, ok_sends, receiver, last, delivered, log,
          shutdown, source, target, mock>>

sender_vars == <<sender, wire, sends, ok_sends>>

receiver_vars == <<receiver, last, delivered, log>>

driver_vars == <<shutdown, source, target>>

NoCall ==
    [called |-> FALSE, data |-> <<>>, before |-> NewReceiver, ret |-> None,
     sequence_changed |-> FALSE, copied |-> FALSE, panicked |-> FALSE]

\* a Sender that has made n successful sends so far (n in 5 bytes), nothing
\* of them left on the wire, and a new Receiver
InitAfter(n) ==
    /\ sender = NewSender(Slice(n, 0, 4))
    /\ ok_sends = n
    /\ wire = <<>>
    /\ sends = <<>>
    /\ receiver = NewReceiver
    /\ last = NoCall
    /\ delivered = {}
    /\ log = <<>>
    /\ shutdown = NewChannel
    /\ source = SourceAtStart
    /\ target = TargetAtStart
    /\ mock = NewMock

\* a new Sender and a new Receiver
Init == InitAfter(FirstSequence \o <<0>>)

\* a Sender that is new or about to wrap its sequence
InitSender == \E seq \in {FirstSequence, LastSequence} : InitAfter(seq \o <<0>>)

(* ------------------------------------------------------------------------ *)
(* Actions                                                                  *)
(* ------------------------------------------------------------------------ *)

\* the send_fn calls that may fail while sending data
FailPoints(data) ==
    LET n == div_ceil(Len(data), MAX_PAYLOAD_SIZE)
    IN  IF TooManyFragments(n) THEN {None}
        ELSE {None} \cup {Some(i) : i \in 0..(n - 1)}

\* One Sender::send call whose send_fn appends the datagram to the wire.  The
\* record of the call keeps the data of a call that reached the fragment
\* loop; fail_at is the send_fn call that was made to fail, sequence and after are the Sender's sequence before and after the
\* call, first the number of datagrams on the wire before it, count the number
\* it put there, nth the number of successful sends before it.
SendCall(in, failAt) ==
    LET r == send(sender, in.data, in.t, failAt)
    IN  /\ sender' = r.sender
        /\ wire' = wire \o r.emitted
        /\ sends' = Append(sends,
              [len      |-> Len(in.data),
               data     |-> IF r.ret = Err(InvalidData) THEN <<>> ELSE in.data,
               t        |-> in.t,
               sequence |-> sender.sequence,
               after    |-> r.sender.sequence,
               ret      |-> r.ret,
               calls    |-> r.calls,
               fail_at  |-> failAt,
               first    |-> Len(wire),
               count    |-> Len(r.emitted),
               nth      |-> ok_sends])
        /\ ok_sends' = IF r.ret.ok THEN wrapping_inc(ok_sends) ELSE ok_sends

SendAny ==
    \E in \in Inputs(Len(sends)) : \E failAt \in FailPoints(in.data) :
        SendCall(in, failAt)

\* a send call of the Sender
Send ==
    /\ Len(sends) < MaxSends
    /\ SendAny
    /\ UNCHANGED <<receiver_vars, driver_vars, mock>>

\* the only send call of a round trip
SendOnce ==
    /\ Len(sends) = 0
    /\ SendAny
    /\ UNCHANGED <<receiver_vars, driver_vars, mock>>

\* One Receiver::process_datagram call on data.
ProcessCall(data) ==
    \E r \in {process_datagram(receiver, data)} :
        /\ receiver' = r.receiver
        /\ last' = [called |-> TRUE, data |-> data, before |-> receiver,
                    ret |-> r.ret, sequence_changed |-> r.sequence_changed,
                    copied |-> r.copied, panicked |-> r.panicked]

\* The network hands a datagram of the wire to the Receiver: any of them, at
\* any time, any number of times (loss, reordering, duplication).
Deliver ==
    /\ ~last.panicked
    /\ \E i \in 1..Len(wire) :
        /\ ProcessCall(wire[i])
        /\ delivered' = delivered \cup {i}
    /\ UNCHANGED <<sender_vars, log, driver_vars, mock>>

\* The same, with the call recorded: the position delivered, what the call
\* returned and the source time latched after it.
DeliverLogged ==
    /\ ~last.panicked
    /\ Len(log) < MaxDeliver
    /\ \E i \in 1..Len(wire) :
        /\ ProcessCall(wire[i])
        /\ delivered' = delivered \cup {i}
        /\ log' = Append(log,
              [pos    |-> i,
               ret    |-> process_datagram(receiver, wire[i]).ret,
               copied |-> process_datagram(receiver, wire[i]).copied,
               time   |-> process_datagram(receiver, wire[i]).receiver.last_source_time_us])
    /\ UNCHANGED <<sender_vars, driver_vars, mock>>

\* The Receiver is handed a datagram no send produced.
Inject ==
    /\ ~last.panicked
    /\ \E i \in 1..Len(wire) : \E d \in Corrupted(wire[i]) : ProcessCall(d)
    /\ UNCHANGED <<sender_vars, delivered, log, driver_vars, mock>>

\* The Receiver is handed a datagram of an arbitrary sender.
Forge ==
    /\ ~last.panicked
    /\ \E i \in 1..Len(wire) : \E d \in Forged(wire[i]) : ProcessCall(d)
    /\ UNCHANGED <<sender_vars, delivered, log, driver_vars, mock>>

\* one of the two send calls of a back-to-back pair, every emit succeeding
SendPair ==
    /\ Len(sends) < 2
    /\ \E in \in Inputs(Len(sends)) : SendCall(in, None)
    /\ UNCHANGED <<receiver_vars, driver_vars, mock>>

(* ------------------------------------------------------------------------ *)
(* source::run                                                              *)
(* ------------------------------------------------------------------------ *)

\* shutdown.try_recv().is_ok(): a message is queued (and is taken)
try_recv_is_ok(ch) == ch.queued > 0

\* the channel after a message was taken from it
taken(ch) == [ch EXCEPT !.queued = ch.queued - 1]

\* a threshold a single timed-out wait reaches
timed_out_at_once(elapsed) == elapsed >= WAIT_INTERVAL_MS

\* last_data_time.elapsed() >= DISCONNECT_TIMEOUT
timed_out(elapsed) == elapsed >= DISCONNECT_TIMEOUT_MS

\* the Source in or before its attach loop (initial or reconnect)
Attaching(pc) == pc \in {"connect", "await_shutdown", "attach_check"}

\* the Source finished: run returned
SourceDone(pc) == pc \in {"done_ok", "done_err"}

\* an error or a shutdown that run notes and then carries on from the top of
\* its loop
SourceCarriesOn(pc, op) ==
    [source EXCEPT !.pc = "check", !.op = op, !.prev = source.telemetry,
                   !.measured = 0]

\* run returns: the provider it holds goes out of scope
SourceReturns(pc, op) ==
    [source EXCEPT !.pc = pc, !.op = op, !.prev = source.telemetry,
                   !.measured = 0, !.telemetry = None, !.held = {}]

\* a step that only moves on, the provider kept
SourceMoves(pc, op) ==
    [source EXCEPT !.pc = pc, !.op = op, !.prev = source.telemetry,
                   !.measured = 0]

\* Telemetry::open() in try_connect_telemetry: Ok, Unavailable or Other.
SrcOpen ==
    /\ source.pc = "connect"
    /\ \/ /\ source.attaches < MaxAttach
          /\ source' = [source EXCEPT
                          !.pc = "check", !.op = "open_ok",
                          !.prev = source.telemetry, !.measured = 0,
                          !.telemetry = Some(source.attaches + 1),
                          !.held = source.held \cup {source.attaches + 1},
                          !.attaches = source.attaches + 1,
                          !.since_data = 0]
       \/ source' = SourceMoves("await_shutdown", "open_unavailable")
       \/ source' = SourceReturns("done_err", "open_failed")
    /\ UNCHANGED <<sender_vars, receiver_vars, shutdown, target, mock>>

\* shutdown.recv_timeout(10 s) after open() was Unavailable: a message is
\* taken, or none comes in time, or the sending half is gone; in each case
\* try_connect_telemetry returns Ok(None).
SrcAwaitShutdown ==
    /\ source.pc = "await_shutdown"
    /\ \/ /\ shutdown.queued > 0
          /\ shutdown' = taken(shutdown)
          /\ source' = SourceMoves("attach_check", "recv_message")
       \/ /\ shutdown.queued = 0 /\ shutdown.tx_alive
          /\ source' = SourceMoves("attach_check", "recv_timeout")
          /\ UNCHANGED shutdown
       \/ /\ shutdown.queued = 0 /\ ~shutdown.tx_alive
          /\ source' = SourceMoves("attach_check", "recv_disconnected")
          /\ UNCHANGED shutdown
    /\ UNCHANGED <<sender_vars, receiver_vars, target, mock>>

\* `if shutdown.try_recv().is_ok() { return Ok(()) }` of the attach loops
SrcAttachCheck ==
    /\ source.pc = "attach_check"
    /\ IF try_recv_is_ok(shutdown)
       THEN /\ shutdown' = taken(shutdown)
            /\ source' = SourceReturns("done_ok", "shutdown_seen")
       ELSE /\ source' = SourceMoves("connect", "no_shutdown")
            /\ UNCHANGED shutdown
    /\ UNCHANGED <<sender_vars, receiver_vars, target, mock>>

\* the same test at the top of the steady-state loop
SrcCheck ==
    /\ source.pc = "check"
    /\ IF try_recv_is_ok(shutdown)
       THEN /\ shutdown' = taken(shutdown)
            /\ source' = SourceReturns("done_ok", "shutdown_seen")
       ELSE /\ source' = SourceMoves("wait", "no_shutdown")
            /\ UNCHANGED shutdown
    /\ UNCHANGED <<sender_vars, receiver_vars, target, mock>>

\* what the count of late calls becomes with one more call
Later(n) == IF shutdown.notified THEN min(n + 1, 2) ELSE n

\* the count of successful waits with one more
Ticked(n) == min(n + 1, MaxSends)

\* the compressed snapshots the k-th send of the Source may carry
Snapshots(k) == {in \in Inputs(k) : Len(in.data) = MaxLen}

\* a compression error that ends run
compress_failed_fatally(s) ==
    [s EXCEPT !.pc = "done_err", !.op = "compress_failed", !.prev = s.telemetry,
              !.measured = 0, !.telemetry = None, !.held = {}]

\* `continue` after compress_to_buffer returned Err: back to the top of the
\* loop, the provider kept
compress_failed(s) ==
    [s EXCEPT !.pc = "check", !.op = "compress_failed", !.prev = s.telemetry,
              !.measured = 0]

\* wait_for_data returned true: last_data_time = now, the snapshot is
\* compressed and sent; a compression error skips the update, a send error
\* ends run.
SrcData ==
    /\ source.pc = "wait"
    /\ Len(sends) < MaxSends
    /\ \/ /\ source' = [compress_failed(source) EXCEPT
                          !.since_data = 0,
                          !.ticks = Ticked(source.ticks),
                          !.late_waits = Later(source.late_waits)]
          /\ UNCHANGED sender_vars
       \/ \E in \in Snapshots(Len(sends)) : \E failAt \in FailPoints(in.data) :
            /\ SendCall(in, failAt)
            /\ source' =
                 IF send(sender, in.data, in.t, failAt).ret.ok
                 THEN [SourceMoves("check", "sent") EXCEPT
                         !.since_data = 0,
                         !.ticks = Ticked(source.ticks),
                         !.late_waits = Later(source.late_waits),
                         !.late_sends = Later(source.late_sends)]
                 ELSE [SourceReturns("done_err", "send_failed") EXCEPT
                         !.since_data = 0,
                         !.ticks = Ticked(source.ticks),
                         !.late_waits = Later(source.late_waits),
                         !.late_sends = Later(source.late_sends)]
    /\ UNCHANGED <<receiver_vars, shutdown, target, mock>>

\* a wait that returned false and is followed by the compression and the
\* send all the same
SrcTimeoutSending ==
    /\ source.pc = "wait"
    /\ Len(sends) < MaxSends
    /\ \E in \in Snapshots(Len(sends)) : SendCall(in, None)
    /\ source' = [SourceMoves("check", "wait_short") EXCEPT
                    !.since_data = source.since_data + WAIT_INTERVAL_MS,
                    !.measured = source.since_data + WAIT_INTERVAL_MS,
                    !.late_waits = Later(source.late_waits)]
    /\ UNCHANGED <<receiver_vars, shutdown, target, mock>>

\* wait_for_data returned false after its timeout (or later): the elapsed
\* time is measured; at DISCONNECT_TIMEOUT the provider is dropped and the
\* attach loop entered again, before that the loop goes on.
SrcTimeout ==
    /\ source.pc = "wait"
    /\ \E late \in {0, WAIT_INTERVAL_MS} :
        LET elapsed == source.since_data + WAIT_INTERVAL_MS + late
        IN  source' =
              IF timed_out(elapsed)
              THEN [SourceMoves("connect", "reconnect") EXCEPT
                      !.telemetry = None, !.held = {},
                      !.since_data = elapsed, !.measured = elapsed,
                      !.late_waits = Later(source.late_waits)]
              ELSE [SourceMoves("check", "wait_short") EXCEPT
                      !.since_data = elapsed, !.measured = elapsed,
                      !.late_waits = Later(source.late_waits)]
    /\ UNCHANGED <<sender_vars, receiver_vars, shutdown, target, mock>>

\* the shutdown handler sends its one notification
NotifySource ==
    /\ ~SourceDone(source.pc)
    /\ ~shutdown.notified /\ shutdown.tx_alive
    /\ shutdown' = [shutdown EXCEPT !.queued = shutdown.queued + 1,
                                    !.notified = TRUE, !.at = source.pc]
    /\ UNCHANGED <<sender_vars, receiver_vars, source, target, mock>>

\* the sending half of the channel is dropped
HangupSource ==
    /\ ~SourceDone(source.pc)
    /\ shutdown.tx_alive
    /\ shutdown' = [shutdown EXCEPT !.tx_alive = FALSE]
    /\ UNCHANGED <<sender_vars, receiver_vars, source, target, mock>>

\* a step of run
SourceStep ==
    SrcOpen \/ SrcAwaitShutdown \/ SrcAttachCheck \/ SrcCheck \/ SrcData
        \/ SrcTimeout

(* ------------------------------------------------------------------------ *)
(* target::run                                                              *)
(* ------------------------------------------------------------------------ *)

\* a test that needs two queued messages
try_recv_is_ok_twice(ch) == ch.queued > 1

\* shutdown.try_recv().is_ok() at the top of the loop of target::run
shutdown_requested(ch) == try_recv_is_ok(ch)

\* run ended: it returned, or its thread panicked in process_datagram
TargetDone(pc) == pc \in {"done_ok", "done_err", "panicked"}

\* the time since last_update after ms more milliseconds; beyond
\* TELEMETRY_TIMEOUT the amount makes no difference to run
aged(since, ms) == min(since + ms, TELEMETRY_TIMEOUT_MS)

\* an age-out as soon as any time has passed
stale_at_once(age) == age > 0

\* last_update.elapsed() >= TELEMETRY_TIMEOUT
stale(age) == age >= TELEMETRY_TIMEOUT_MS

\* a signal raised whether or not the payload was decompressed
signals_always(decompressed) == 1

\* the signal_data_ready calls of an iteration that handled a payload
signals_after(decompressed) == IF decompressed THEN 1 ELSE 0

\* a skipped update that still sets last_update
skip_update_touching(t) ==
    [t EXCEPT !.pc = "check", !.since_update = 0]

\* `continue` after try_decompress_data returned false
skip_update(t) == [t EXCEPT !.pc = "check"]

\* run returns or panics: the provider it holds goes out of scope
TargetEnds(t, pc) == [t EXCEPT !.pc = pc, !.telemetry = None]

\* The Ok arm of recv_from in the Target t: r is the result of process_datagram
\* on the datagram, age the time since last_update, env the outcomes of
\* create_telemetry, of the decompression and of signal_data_ready.
on_datagram(t, r, age, dup, env) ==
    LET it0 == [NoIteration("datagram") EXCEPT
                   !.before = t.telemetry, !.age = age, !.dup = dup,
                   !.complete = r.ret.some]
        t0 == [t EXCEPT !.since_update = age, !.it = it0]
    IN  IF r.panicked THEN TargetEnds(t0, "panicked")
        ELSE
        LET t1 == [t0 EXCEPT !.sequence_start_time =
                                 IF r.sequence_changed THEN TRUE ELSE @]
        IN  IF ~r.ret.some THEN [t1 EXCEPT !.pc = "check"]
            ELSE IF ~t.telemetry.some /\ ~env.create_ok
            THEN TargetEnds(t1, "done_err")
            ELSE
            LET t2 == [t1 EXCEPT
                         !.telemetry = Some([of    |-> r.ret.value,
                                             whole |-> env.decompress_ok]),
                         !.it.created = ~t.telemetry.some,
                         !.it.wrote = TRUE,
                         !.it.decompressed = env.decompress_ok,
                         !.it.signals = signals_after(env.decompress_ok)]
            IN  IF ~env.decompress_ok THEN skip_update(t2)
                ELSE IF ~env.signal_ok THEN TargetEnds(t2, "done_err")
                ELSE [t2 EXCEPT !.pc = "check",
                                !.sequence_start_time = FALSE,
                                !.since_update = 0,
                                !.it.updated = TRUE]

\* The WouldBlock / TimedOut arm of recv_from.
on_timeout(t, age) ==
    LET it0 == [NoIteration("timeout") EXCEPT !.before = t.telemetry, !.age = age]
    IN  [t EXCEPT !.pc = "check", !.since_update = age, !.it = it0,
                  !.telemetry = IF t.telemetry.some /\ stale(age) THEN None ELSE @]

\* the test of the shutdown notification at the top of the loop
TgtCheck ==
    /\ target.pc = "check"
    /\ IF shutdown_requested(shutdown)
       THEN /\ shutdown' = taken(shutdown)
            /\ target' = [TargetEnds(target, "done_ok") EXCEPT
                            !.it = [NoIteration("shutdown_seen") EXCEPT
                                      !.before = target.telemetry]]
       ELSE /\ target' = [target EXCEPT
                            !.pc = "recv",
                            !.late_recvs = Later(target.late_recvs)]
            /\ UNCHANGED shutdown
    /\ UNCHANGED <<sender_vars, receiver_vars, source, mock>>

\* what the socket of the Target may receive of a datagram of the wire: the
\* datagram, its first bytes short of a header, or an index beyond the count
Received(d) == {d, truncated(d, HEADER_SIZE - 1), with_fragment(d, BAD_FRAGMENT)}

\* the outcomes of create_telemetry, of the decompression and of
\* signal_data_ready
Outcomes == [create_ok : BOOLEAN, decompress_ok : BOOLEAN, signal_ok : BOOLEAN]

AllOk == [create_ok |-> TRUE, decompress_ok |-> TRUE, signal_ok |-> TRUE]

\* recv_from returned a datagram, at once or after half the read timeout
TgtDatagram ==
    /\ target.pc = "recv"
    /\ \E i \in 1..Len(wire) : \E d \in Received(wire[i]) :
        LET r == process_datagram(receiver, d)
            dup == d = wire[i] /\ i \in delivered
        IN  /\ receiver' = r.receiver
            /\ last' = [called |-> TRUE, data |-> d, before |-> receiver,
                        ret |-> r.ret, sequence_changed |-> r.sequence_changed,
                        copied |-> r.copied, panicked |-> r.panicked]
            /\ delivered' = IF d = wire[i] THEN delivered \cup {i} ELSE delivered
            /\ \E ms \in {0, RECV_TIMEOUT_MS \div 2} :
               \E env \in (IF r.ret.some THEN Outcomes ELSE {AllOk}) :
                 target' = on_datagram(target, r, aged(target.since_update, ms),
                                       dup, env)
    /\ UNCHANGED <<sender_vars, log, shutdown, source, mock>>

\* recv_from ran into its read timeout
TgtTimeout ==
    /\ target.pc = "recv"
    /\ target' = on_timeout(target, aged(target.since_update, RECV_TIMEOUT_MS))
    /\ UNCHANGED <<sender_vars, receiver_vars, shutdown, source, mock>>

\* recv_from failed with another error: run returns it
TgtRecvError ==
    /\ target.pc = "recv"
    /\ target' = [TargetEnds(target, "done_err") EXCEPT
                    !.it = [NoIteration("recv_error") EXCEPT
                              !.before = target.telemetry]]
    /\ UNCHANGED <<sender_vars, receiver_vars, shutdown, source, mock>>

\* the shutdown handler sends its one notification
NotifyTarget ==
    /\ ~TargetDone(target.pc)
    /\ ~shutdown.notified
    /\ shutdown' = [shutdown EXCEPT !.queued = shutdown.queued + 1,
                                    !.notified = TRUE, !.at = target.pc]
    /\ UNCHANGED <<sender_vars, receiver_vars, source, target, mock>>

\* the Source at the other end sends one snapshot, every emit succeeding
SendSnapshot ==
    /\ Len(sends) = 0
    /\ \E in \in Snapshots(0) : SendCall(in, None)
    /\ UNCHANGED <<receiver_vars, driver_vars, mock>>

\* a step of run
TargetStep == TgtCheck \/ TgtDatagram \/ TgtTimeout \/ TgtRecvError

(* ------------------------------------------------------------------------ *)
(* MockTelemetry::wait_for_data and signal_data_ready (telemetry/mock.rs)   *)
(* ------------------------------------------------------------------------ *)

\* Instant::duration_since: zero when the other instant is later
duration_since(later, earlier) == IF later >= earlier THEN later - earlier ELSE 0

\* start.duration_since(last_signal) < timeout / 2, in milliseconds
recent(last_signal, start, timeout) ==
    last_signal.some /\ 2 * duration_since(start, last_signal.value) < timeout

\* wait_for_data from the lock to wait_timeout: the state it leaves and what
\* it returns, None when it goes on to wait on the condition variable
wait_for_data_enter(state, start, timeout) ==
    IF recent(state.last_signal, start, timeout)
    THEN [state |-> [state EXCEPT !.last_signal = None, !.ready = FALSE],
          ret |-> Some(TRUE)]
    ELSE IF state.ready
    THEN [state |-> [state EXCEPT !.ready = FALSE], ret |-> Some(TRUE)]
    ELSE [state |-> [state EXCEPT !.waiters = state.waiters + 1], ret |-> None]

\* wait_for_data after wait_timeout returned with the lock held again
wait_for_data_leave(state, wait_timed_out) ==
    LET left == [state EXCEPT !.waiters = state.waiters - 1]
    IN  [state |-> IF left.waiters = 0
                   THEN [left EXCEPT !.ready = FALSE, !.last_signal = None]
                   ELSE left,
         ret |-> ~wait_timed_out]

\* the wait_for_data calls made so far
RECURSIVE CallsOf(_, _)
CallsOf(threads, n) ==
    IF n = 0 THEN 0 ELSE threads[n].calls + CallsOf(threads, n - 1)

\* the threads blocked in wait_timeout
Blocked(threads) == {t \in DOMAIN threads : threads[t].pc = "waiting"}

\* a thread that wait_timeout releases because it was notified
notified(th) == [th EXCEPT !.pc = "woken", !.timed_out = FALSE]

\* Condvar::notify_one: one blocked thread returns from wait_timeout
notify_one(threads) ==
    [t \in DOMAIN threads |->
        IF t \in Blocked(threads) /\ \A u \in Blocked(threads) : t <= u
        THEN notified(threads[t]) ELSE threads[t]]

\* Condvar::notify_all: every blocked thread returns from wait_timeout
notify_all(threads) ==
    [t \in DOMAIN threads |->
        IF t \in Blocked(threads) THEN notified(threads[t]) ELSE threads[t]]

\* the blocked threads note that the k-th signal was given while they waited
Noting(threads, k) ==
    [t \in DOMAIN threads |->
        IF t \in Blocked(threads) THEN [threads[t] EXCEPT !.present = Some(k)]
        ELSE threads[t]]

\* thread t's call returns ret
WaitReturns(m, t, ret) ==
    LET th == m.threads[t]
    IN  [m EXCEPT !.threads[t] = [NewThread EXCEPT !.calls = th.calls,
                                                   !.ret = Some(ret),
                                                   !.by = th.present],
                  !.trues = IF ret THEN m.trues + 1 ELSE m.trues,
                  !.released = IF ret /\ th.present.some
                               THEN [m.released EXCEPT ![th.present.value] = @ + 1]
                               ELSE m.released]

MockFrame == UNCHANGED <<sender_vars, receiver_vars, driver_vars>>

\* thread t calls wait_for_data(timeout_ms) and runs to wait_timeout or to
\* an immediate return
WaitEnter(t) ==
    /\ mock.threads[t].pc = "idle"
    /\ CallsOf(mock.threads, MaxThreads) < MaxWaits
    /\ \E timeout_ms \in Timeouts :
         LET start == mock.now
             r == wait_for_data_enter(mock.state, start, timeout_ms)
             called == [mock EXCEPT !.state = r.state,
                                    !.threads[t].calls = @ + 1,
                                    !.threads[t].start = start,
                                    !.threads[t].timeout = timeout_ms,
                                    !.threads[t].timed_out = FALSE,
                                    !.threads[t].present = None]
         IN  mock' = IF r.ret.some THEN WaitReturns(called, t, r.ret.value)
                     ELSE [called EXCEPT !.threads[t].pc = "waiting"]
    /\ MockFrame

\* the timeout of thread t's wait_timeout elapses before a notification
WaitTimeout(t) ==
    /\ mock.threads[t].pc = "waiting"
    /\ duration_since(mock.now, mock.threads[t].start) >= mock.threads[t].timeout
    /\ mock' = [mock EXCEPT !.threads[t].pc = "woken",
                            !.threads[t].timed_out = TRUE]
    /\ MockFrame

\* thread t has the lock again and finishes wait_for_data
WaitLeave(t) ==
    /\ mock.threads[t].pc = "woken"
    /\ LET r == wait_for_data_leave(mock.state, mock.threads[t].timed_out)
       IN  mock' = WaitReturns([mock EXCEPT !.state = r.state], t, r.ret)
    /\ MockFrame

\* the signalling thread calls signal_data_ready
SignalDataReady ==
    /\ mock.signals < MaxSignals
    /\ mock' = [mock EXCEPT
                  !.state = [mock.state EXCEPT !.ready = TRUE,
                                               !.last_signal = Some(mock.now)],
                  !.signals = mock.signals + 1,
                  !.threads = notify_all(Noting(mock.threads, mock.signals + 1))]
    /\ MockFrame

\* time passes
Tick ==
    /\ mock.now < MaxTicks * TICK_MS
    /\ mock' = [mock EXCEPT !.now = mock.now + TICK_MS]
    /\ MockFrame

\* a step of a waiting thread
WaitStep == \E t \in Threads : WaitEnter(t) \/ WaitTimeout(t) \/ WaitLeave(t)

\* the Sender and the Receiver across a lossy, reordering, duplicating network
Next == Send \/ Deliver

Spec == Init /\ [][Next]_vars

\* the Sender alone, from sequence 0 or from the last sequence before the wrap
NextSender == Send

SpecSender == InitSender /\ [][NextSender]_vars

\* one send into a fresh Receiver, every call recorded
NextRoundTrip == SendOnce \/ DeliverLogged

SpecRoundTrip == Init /\ [][NextRoundTrip]_vars

\* one send, and a Receiver fed its datagrams and corrupted ones in any order
NextReceiver == SendOnce \/ Deliver \/ Inject

SpecReceiver == Init /\ [][NextReceiver]_vars

\* one send, and a Receiver fed its datagrams and those of an arbitrary
\* sender in any order
NextForged == SendOnce \/ Deliver \/ Forge

SpecForged == Init /\ [][NextForged]_vars

\* two sends into a fresh Receiver, every call recorded
NextAbandon == SendPair \/ DeliverLogged

SpecAbandon == Init /\ [][NextAbandon]_vars

\* source::run with its provider, its socket and the shutdown handler; run
\* keeps taking steps until it returns
NextSource == SourceStep \/ NotifySource \/ HangupSource

SpecSource == Init /\ [][NextSource]_vars /\ WF_vars(SourceStep)

\* target::run with its socket, its provider and the shutdown handler; run
\* keeps taking steps until it ends
NextTarget == TargetStep \/ NotifyTarget \/ SendSnapshot

SpecTarget == Init /\ [][NextTarget]_vars /\ WF_vars(TargetStep)

\* one MockTelemetry, the threads waiting on it, a signalling thread and the
\* clock
NextMock == WaitStep \/ SignalDataReady \/ Tick

SpecMock == Init /\ [][NextMock]_vars

(* ------------------------------------------------------------------------ *)
(* Round trip of one send (SpecRoundTrip)                                   *)
(* ------------------------------------------------------------------------ *)

\* the positions of wire that hold the datagrams of the k-th send call
PositionsOf(k) == (sends[k].first + 1)..(sends[k].first + sends[k].count)

\* the fragment count of a payload of len bytes
FragmentCount(len) == div_ceil(len, MAX_PAYLOAD_SIZE)

\* one successful send of a non-empty payload has taken place
OneSend == Len(sends) = 1 /\ sends[1].ret.ok /\ sends[1].len > 0

\* the recorded calls that returned a complete payload
Completions == {j \in 1..Len(log) : log[j].ret.some}

\* the datagrams were delivered in emission order, each once, so far
InOrder == \A j \in 1..Len(log) : log[j].pos = j

\* no datagram was delivered twice so far
EachOnce == \A i, j \in 1..Len(log) : log[i].pos = log[j].pos => i = j

\* every datagram of the send was delivered at least once
AllDelivered == PositionsOf(1) \subseteq {log[j].pos : j \in 1..Len(log)}

\* the j-th recorded call got a datagram that an earlier call had got already
IsDuplicate(j) == \E i \in 1..(j - 1) : log[i].pos = log[j].pos

\* C1: the datagrams of one successful send of a non-empty payload b with
\* source time t, fed in emission order to a fresh Receiver, make exactly one
\* call return a payload: the last one; the payload is b, and the latched
\* source time after that call is t.
C1_RoundTrip ==
    (OneSend /\ InOrder) =>
        LET n == FragmentCount(sends[1].len)
        IN  /\ \A j \in 1..Len(log) : log[j].ret.some <=> j = n
            /\ Len(log) = n =>
                /\ Completions = {n}
                /\ log[n].ret.value = sends[1].data
                /\ log[n].time = sends[1].t

C1_Witness ==
    /\ OneSend /\ InOrder
    /\ Len(log) = 3 /\ FragmentCount(sends[1].len) = 3
    /\ log[3].ret = Some(sends[1].data)
    /\ log[3].time = sends[1].t /\ sends[1].t # ZeroTime

\* C2: the datagrams of one successful send of a non-empty payload b, fed to a
\* fresh Receiver in any order, each once, make exactly one call return a
\* payload: the last one; the payload is b.
C2_ReorderInvariance ==
    (OneSend /\ EachOnce) =>
        LET n == FragmentCount(sends[1].len)
        IN  /\ \A j \in 1..Len(log) : log[j].ret.some <=> j = n
            /\ Len(log) = n =>
                /\ Completions = {n}
                /\ log[n].ret.value = sends[1].data

C2_Witness ==
    /\ OneSend /\ EachOnce
    /\ Len(log) = 3
    /\ <<log[1].pos, log[2].pos, log[3].pos>> = <<3, 1, 2>>
    /\ log[3].ret = Some(sends[1].data)

\* C3 as claimed: when every datagram of one successful send of a non-empty
\* payload b has been delivered to a fresh Receiver, some of them more than
\* once at any positions, exactly one call has returned a payload, that
\* payload is b, and no call on a datagram delivered before has copied bytes
\* into the reassembly buffer.
C3_DuplicateTolerance ==
    (OneSend /\ AllDelivered) =>
        /\ Cardinality(Completions) = 1
        /\ \A j \in Completions : log[j].ret.value = sends[1].data
        /\ \A j \in 1..Len(log) : IsDuplicate(j) => ~log[j].copied

(* ------------------------------------------------------------------------ *)
(* Sender and Receiver across the network (Spec), the Sender (SpecSender)   *)
(* ------------------------------------------------------------------------ *)

Calls == 1..Len(sends)

\* the body of a datagram: what follows the header
BodyOf(d) == Slice(d, HEADER_SIZE, Len(d))

\* every datagram handed to the Receiver so far came from a successful send
OnlySuccessfulFed ==
    \A i \in delivered : \E k \in Calls : i \in PositionsOf(k) /\ sends[k].ret.ok

\* the successful sends that stamped their datagrams with seq
SuccessfulWith(seq) == {k \in Calls : sends[k].ret.ok /\ sends[k].sequence = seq}

\* C4: as long as the Receiver is fed only datagrams of successful sends, lost,
\* reordered and duplicated at will, a payload it returns is the data of
\* exactly one send, the one whose sequence number the completing datagram
\* carries, and every fragment of that send has been delivered.
C4_NoCorruptedDelivery ==
    (last.called /\ last.ret.some /\ OnlySuccessfulFed) =>
        LET ks == SuccessfulWith(parse_header(last.data).sequence)
        IN  /\ Cardinality(ks) = 1
            /\ \A k \in ks :
                /\ last.ret.value = sends[k].data
                /\ PositionsOf(k) \subseteq delivered

C4_Witness ==
    /\ last.called /\ last.ret.some /\ OnlySuccessfulFed
    /\ Len(sends) = 2
    /\ \A k \in Calls : sends[k].ret.ok /\ sends[k].count >= 2
    /\ sends[1].len = sends[2].len
    /\ parse_header(last.data).sequence = sends[2].sequence
    /\ last.ret.value = sends[2].data
    /\ delivered \cap PositionsOf(1) # {}
    /\ ~(PositionsOf(1) \subseteq delivered)

\* C5: the sequence of the Sender is the number of successful sends of its
\* life modulo 2^32: every datagram of a successful send carries the number
\* of successful sends before it, a successful send advances the sequence by
\* exactly 1, and from 2^32 - 1 it goes to 0.
C5_SequenceMonotonicity ==
    /\ sender.sequence = Slice(ok_sends, 0, 4)
    /\ \A k \in Calls : sends[k].ret.ok =>
        /\ \A i \in PositionsOf(k) :
            parse_header(wire[i]).sequence = Slice(sends[k].nth, 0, 4)
        /\ sends[k].after = wrapping_inc(sends[k].sequence)
        /\ sends[k].sequence = LastSequence => sends[k].after = FirstSequence

C5_Witness ==
    /\ Len(sends) = 2
    /\ \A k \in Calls : sends[k].ret.ok /\ sends[k].count >= 2
    /\ \A i \in PositionsOf(1) : parse_header(wire[i]).sequence = LastSequence
    /\ \A i \in PositionsOf(2) : parse_header(wire[i]).sequence = FirstSequence

\* C8: a send of data that needs more than 65535 fragments returns the
\* InvalidData error, calls send_fn zero times and leaves the sequence as it
\* was.
C8_OversizedRejection ==
    \A k \in Calls : FragmentCount(sends[k].len) > U16_MAX =>
        /\ sends[k].ret = Err(InvalidData)
        /\ sends[k].calls = 0
        /\ sends[k].count = 0
        /\ sends[k].after = sends[k].sequence
        /\ k < Len(sends) => sends[k + 1].sequence = sends[k].sequence

C8_Witness ==
    /\ Len(sends) = 2
    /\ sends[1].len = U16_MAX * MAX_PAYLOAD_SIZE + 1
    /\ sends[1].ret = Err(InvalidData)
    /\ sends[2].ret.ok /\ sends[2].count > 0

\* C9: when send_fn fails on fragment i, send returns the error of that call,
\* fragments 0..i-1 and no other have been emitted, send_fn is not called
\* again, and the sequence is left as it was, so that the next send stamps
\* the same sequence number.
C9_EmitFailure ==
    \A k \in Calls : sends[k].fail_at.some =>
        /\ sends[k].ret = Err(EmitError(sends[k].fail_at.value))
        /\ sends[k].calls = sends[k].fail_at.value + 1
        /\ sends[k].count = sends[k].fail_at.value
        /\ \A j \in 1..sends[k].count :
            parse_header(wire[sends[k].first + j]).fragment = j - 1
        /\ sends[k].after = sends[k].sequence
        /\ k < Len(sends) => sends[k + 1].sequence = sends[k].sequence

C9_Witness ==
    /\ Len(sends) = 2
    /\ sends[1].fail_at = Some(1) /\ sends[1].count = 1
    /\ sends[2].ret.ok /\ sends[2].count >= 2
    /\ \A i \in 1..Len(wire) : parse_header(wire[i]).sequence = sends[1].sequence

\* the bodies of the datagrams at positions lo..hi of the wire, concatenated
RECURSIVE Bodies(_, _)
Bodies(lo, hi) ==
    IF lo > hi THEN <<>> ELSE BodyOf(wire[lo]) \o Bodies(lo + 1, hi)

\* C10: a successful send of data with source time t calls send_fn
\* n = ceil(len / MAX_PAYLOAD_SIZE) times and returns n; its i-th datagram has
\* the header (sequence, fragment i, fragments n, payload_size len, t)
\* followed by data[i * MAX_PAYLOAD_SIZE .. min((i+1) * MAX_PAYLOAD_SIZE, len)];
\* no datagram is longer than MAX_DATAGRAM_SIZE and the bodies in index order
\* make up data.
C10_Fragmentation ==
    \A k \in Calls : sends[k].ret.ok =>
        LET c == sends[k]
            n == FragmentCount(c.len)
        IN  /\ c.calls = n /\ c.count = n /\ c.ret.value = n
            /\ \A i \in 0..(n - 1) :
                LET d == wire[c.first + 1 + i]
                IN  /\ Len(d) >= HEADER_SIZE /\ Len(d) <= MAX_DATAGRAM_SIZE
                    /\ parse_header(d) =
                          [sequence       |-> c.sequence,
                           fragment       |-> i,
                           fragments      |-> n,
                           payload_size   |-> c.len,
                           source_time_us |-> c.t]
                    /\ BodyOf(d) =
                          Slice(c.data, i * MAX_PAYLOAD_SIZE,
                                min((i + 1) * MAX_PAYLOAD_SIZE, c.len))
            /\ Bodies(c.first + 1, c.first + n) = c.data

C10_Witness ==
    \E k \in Calls :
        /\ sends[k].ret = Ok(3) /\ sends[k].count = 3
        /\ sends[k].len = 2 * MAX_PAYLOAD_SIZE + 1
        /\ Len(wire[sends[k].first + 3]) = HEADER_SIZE + 1
        /\ sends[k].t # ZeroTime

(* ------------------------------------------------------------------------ *)
(* The Receiver on arbitrary datagrams (SpecReceiver)                       *)
(* ------------------------------------------------------------------------ *)

\* the fragment field of a datagram, bytes 4 and 5, is there and is 0
FragmentFieldIsZero(d) == Len(d) >= 6 /\ from_bytes(Slice(d, 4, 6)) = 0

\* C6 as claimed: on any datagram, in any state of the Receiver, a call that
\* returns has sequence_changed true exactly when the fragment field of the
\* datagram is 0.
C6_SequenceChangedAnyDatagram ==
    (last.called /\ ~last.panicked) =>
        (last.sequence_changed <=> FragmentFieldIsZero(last.data))

\* C6 amended: on any datagram that holds a full header, in any state of the
\* Receiver, a call that returns has sequence_changed true exactly when the
\* fragment field of the header is 0, whether the datagram is admitted,
\* invalid, a duplicate or of another sequence; on a datagram shorter than
\* the header it is false.
C6_SequenceChanged ==
    (last.called /\ ~last.panicked) =>
        IF Len(last.data) >= HEADER_SIZE
        THEN last.sequence_changed <=> parse_header(last.data).fragment = 0
        ELSE ~last.sequence_changed

\* an invalid datagram with fragment 0, of the sequence under reassembly,
\* flagged as a sequence change
C6_Witness ==
    /\ last.called /\ ~last.panicked /\ Len(last.data) >= HEADER_SIZE
    /\ parse_header(last.data).fragment = 0
    /\ parse_header(last.data).fragments = 0
    /\ last.before.current_sequence = Some(parse_header(last.data).sequence)
    /\ last.before.received_fragments > 0
    /\ last.sequence_changed

\* the part of the Receiver that holds the reassembly under way
ReassemblyOf(r) ==
    <<r.current_sequence, r.total_fragments, r.received_fragments,
      r.payload_size, r.fragments, r.buffer>>

\* C7 as claimed: a datagram whose header has fragment >= fragments or
\* fragments = 0, whatever its sequence number, returns no payload and leaves
\* the reassembly under way (some fragment received, not yet complete) as it
\* was.
C7_ValidationWithoutDisturbance ==
    (/\ last.called /\ ~last.panicked /\ Len(last.data) >= HEADER_SIZE
     /\ last.before.current_sequence.some
     /\ last.before.received_fragments > 0
     /\ \/ parse_header(last.data).fragment >= parse_header(last.data).fragments
        \/ parse_header(last.data).fragments = 0) =>
        /\ ~last.ret.some
        /\ ReassemblyOf(receiver) = ReassemblyOf(last.before)

(* ------------------------------------------------------------------------ *)
(* Emission order of the Sender (SpecSender)                                *)
(* ------------------------------------------------------------------------ *)

\* the positions of the wire, and the header fields of the datagram at one
WirePositions == 1..Len(wire)

SequenceAt(i) == parse_header(wire[i]).sequence

FragmentAt(i) == parse_header(wire[i]).fragment

\* no datagram of another sequence number lies between two of the same one
SequencesContiguous ==
    \A i, j, l \in WirePositions :
        (i < j /\ j < l /\ SequenceAt(i) = SequenceAt(l)) =>
            SequenceAt(j) = SequenceAt(i)

CallsOn(k) == {j \in 1..Len(log) : log[j].pos \in PositionsOf(k)}

\* Two successful sends s and s' of non-empty payloads; the Receiver got some
\* but not all datagrams of s, in any order, and after them datagrams of s'
\* alone, each at most once.
PartialThenNext ==
    /\ Len(sends) = 2
    /\ \A k \in Calls : sends[k].ret.ok /\ sends[k].len > 0
    /\ {log[j].pos : j \in CallsOn(1)} # PositionsOf(1)
    /\ \A i \in CallsOn(1) : \A j \in CallsOn(2) : i < j
    /\ \A i, j \in CallsOn(2) : log[i].pos = log[j].pos => i = j

\* the reassembly right after the first datagram d of a sequence was admitted
\* into a reset Receiver: sized by the header of d, holding d's fragment only
FreshWith(r, d) ==
    LET h == parse_header(d)
        n == h.fragments
    IN  /\ r.total_fragments = n
        /\ r.payload_size = h.payload_size
        /\ r.received_fragments = 1
        /\ r.fragments = [i \in 1..n |-> i = h.fragment + 1]
        /\ r.buffer = copy_from_slice(resized(h.payload_size, 0),
                                      buffer_offset_of(h), BodyOf(d))
        /\ r.current_sequence = (IF n = 1 THEN None ELSE Some(h.sequence))

\* C12: when only a proper subset of the fragments of a send s has been
\* delivered and then the fragments of a later send s' are delivered, the
\* first datagram of s' resets the reassembly (the count restarts, the bit
\* set and the buffer are sized by the header of s' and hold nothing of s),
\* no call returns a payload for s, and the call that delivers the last
\* missing fragment of s', and no other, returns a payload: the data of s'.
C12_AbandonOnNextSequence ==
    PartialThenNext =>
        LET n == FragmentCount(sends[2].len)
            next == CallsOn(2)
        IN  /\ \A j \in CallsOn(1) : ~log[j].ret.some
            /\ Cardinality(next) = 1 => FreshWith(receiver, last.data)
            /\ \A j \in next :
                log[j].ret.some <=> Cardinality({i \in next : i <= j}) = n
            /\ \A j \in next : log[j].ret.some => log[j].ret.value = sends[2].data

\* b1 of 3 fragments, two of them delivered; b2 of 2 fragments, both
\* delivered: the last call returns b2
C12_Witness ==
    /\ PartialThenNext
    /\ sends[1].count = 3 /\ sends[2].count = 2
    /\ Len(log) = 4
    /\ Cardinality(CallsOn(1)) = 2 /\ ~log[1].ret.some /\ ~log[2].ret.some
    /\ ~log[3].ret.some
    /\ log[4].ret = Some(sends[2].data)

(* ------------------------------------------------------------------------ *)
(* Shutdown and reconnect of the Source (SpecSource)                        *)
(* ------------------------------------------------------------------------ *)

\* C13 as claimed: when the one shutdown notification is sent at any moment
\* of an attach loop (initial or reconnect: open being tried, the 10 s wait
\* for the notification, or the test after it), run eventually returns and
\* stops calling open.
C13_ShutdownDuringAttach ==
    (shutdown.notified /\ Attaching(shutdown.at)) ~> SourceDone(source.pc)

\* the Source was in its steady-state loop when the notification was sent
NotifiedWhileAttached == shutdown.notified /\ shutdown.at \in {"check", "wait"}

\* C15 as claimed: every steady-state iteration tests the notification before
\* it waits for data, so once the notification was sent while the Source was
\* attached, at most one more wait_for_data and one more send are begun, and
\* run eventually returns.
C15_SteadyStateShutdown ==
    /\ [](NotifiedWhileAttached =>
            source.late_waits <= 1 /\ source.late_sends <= 1)
    /\ NotifiedWhileAttached ~> SourceDone(source.pc)

\* C14: the Source drops its provider and enters the attach loop again only
\* in a wait_for_data that returned false with at least DISCONNECT_TIMEOUT
\* measured since the last data or attach; a timed-out wait that measures
\* less keeps the provider it had; a provider is opened only while none is
\* held, and the attach starts the measured time at 0; at most one provider
\* is held at any time.
C14_Reconnect ==
    /\ Cardinality(source.held) <= 1
    /\ source.held =
           (IF source.telemetry.some THEN {source.telemetry.value} ELSE {})
    /\ Attaching(source.pc) => ~source.telemetry.some
    /\ source.op = "reconnect" =>
        /\ source.measured >= 1000 * DISCONNECT_TIMEOUT_S
        /\ source.prev.some /\ ~source.telemetry.some
        /\ source.pc = "connect"
    /\ source.op = "wait_short" =>
        /\ source.measured < 1000 * DISCONNECT_TIMEOUT_S
        /\ source.prev.some /\ source.telemetry = source.prev
        /\ source.pc = "check"
    /\ (source.prev.some /\ source.telemetry # source.prev) =>
        \/ source.op = "reconnect"
        \/ SourceDone(source.pc)
    /\ source.op = "open_ok" =>
        /\ ~source.prev.some
        /\ source.telemetry = Some(source.attaches)
        /\ source.since_data = 0

\* the Source attached a second time, after a reconnect
C14_Witness ==
    /\ source.op = "open_ok" /\ source.attaches = 2
    /\ source.telemetry = Some(2) /\ source.held = {2}
    /\ source.since_data = 0 /\ Len(sends) > 0

(* ------------------------------------------------------------------------ *)
(* Shutdown, provider and updates of the Target (SpecTarget)                *)
(* ------------------------------------------------------------------------ *)

\* C16: every iteration of the Target tests the notification before it calls
\* recv_from: once the notification was sent no recv_from is begun any more,
\* the pending one returns (datagram or timeout), and at the top of the next
\* iteration run returns Ok(()) with the provider released, unless the
\* pending iteration itself ended run; after run has returned nothing of the
\* Target changes (no write, no signal).
C16_TargetShutdown ==
    /\ [](shutdown.notified => target.late_recvs = 0)
    /\ []((shutdown.notified /\ shutdown.queued = 0) => TargetDone(target.pc))
    /\ [](target.it.op = "shutdown_seen" <=> target.pc = "done_ok")
    /\ [](TargetDone(target.pc) => ~target.telemetry.some)
    /\ [][TargetDone(target.pc) => target' = target]_vars
    /\ shutdown.notified ~> TargetDone(target.pc)

\* the notification came during a pending recv_from of a Target that held a
\* provider; run returned Ok(()) at the next test
C16_Witness ==
    /\ shutdown.notified /\ shutdown.at = "recv"
    /\ target.pc = "done_ok" /\ target.it.op = "shutdown_seen"
    /\ target.it.before.some
    /\ target.late_recvs = 0

\* the iterations that can be told apart by what recv_from gave them
GotDatagram == target.it.op = "datagram"

GotTimeout == target.it.op = "timeout"

\* the last iteration dropped the provider while run went on
AgedOut ==
    target.it.before.some /\ ~target.telemetry.some /\ ~TargetDone(target.pc)

\* C17 as claimed: the Target holds no provider at start-up and creates one
\* only in an iteration in which process_datagram returned a complete payload
\* while no provider was held; an iteration whose datagram was incomplete,
\* invalid or a duplicate of one received before, or whose recv_from timed
\* out, creates none.
C17_LazyProvider ==
    /\ target.it.op = "start" => ~target.telemetry.some
    /\ target.it.created =>
          GotDatagram /\ target.it.complete /\ ~target.it.before.some
    /\ (GotDatagram /\ ~target.it.complete) => ~target.it.created
    /\ (GotDatagram /\ target.it.dup) => ~target.it.created
    /\ ~GotDatagram => ~target.it.created

\* C18 as claimed: whenever the Target holds a provider and no update has
\* been applied for TELEMETRY_TIMEOUT, the Target eventually drops the
\* provider (or an update arrives after all, or run ends).
C18_AgeOutEventually ==
    (target.telemetry.some /\ target.since_update >= 1000 * TELEMETRY_TIMEOUT_S)
        ~> \/ ~target.telemetry.some
           \/ target.since_update < 1000 * TELEMETRY_TIMEOUT_S
           \/ TargetDone(target.pc)

\* C18 amended: a recv_from that ends in WouldBlock / TimedOut while the Target
\* holds a provider whose last update is TELEMETRY_TIMEOUT or more ago drops
\* the provider; the provider is dropped while run goes on only in such an
\* iteration, never while last_update is younger than TELEMETRY_TIMEOUT and
\* never in an iteration that received a datagram.
C18_AgeOut ==
    /\ (GotTimeout /\ target.it.before.some
          /\ target.it.age >= 1000 * TELEMETRY_TIMEOUT_S) =>
          ~target.telemetry.some
    /\ AgedOut =>
          GotTimeout /\ target.it.age >= 1000 * TELEMETRY_TIMEOUT_S
    /\ (GotTimeout /\ target.it.before.some
          /\ target.it.age < 1000 * TELEMETRY_TIMEOUT_S) =>
          target.telemetry = target.it.before

\* a provider that took updates is dropped by a timeout, ten silent seconds
\* after the last of them
C18_Witness ==
    /\ AgedOut /\ GotTimeout
    /\ target.it.before.some /\ target.it.before.value.whole
    /\ target.it.age = 1000 * TELEMETRY_TIMEOUT_S
    /\ Cardinality(delivered) = Len(wire)

C20_WriteThenSignal ==
    /\ target.it.wrote =>
        /\ GotDatagram /\ target.it.complete
        /\ last.ret.some
        /\ TargetDone(target.pc) \/
             (target.telemetry.some /\ target.telemetry.value.of = last.ret.value)
    /\ target.it.signals = (IF target.it.decompressed THEN 1 ELSE 0)
    /\ target.it.decompressed => target.it.wrote
    /\ target.it.updated => target.it.signals = 1
    /\ ~target.it.wrote =>
        (TargetDone(target.pc) \/ target.telemetry \in {None, target.it.before})

\* the last fragment of a snapshot arrives: the provider is created, the
\* payload decompressed into it and signalled once
C20_Witness ==
    /\ GotDatagram /\ target.it.wrote /\ target.it.decompressed
    /\ target.it.signals = 1 /\ target.it.updated /\ target.it.created
    /\ Cardinality(delivered) = Len(wire) /\ Len(wire) > 1
    /\ target.telemetry = Some([of |-> sends[1].data, whole |-> TRUE])
    /\ target.since_update = 0 /\ target.pc = "check"

(* ------------------------------------------------------------------------ *)
(* The signal of the mock provider (SpecMock)                               *)
(* ------------------------------------------------------------------------ *)

\* thread t is the only one that has called wait_for_data
OnlyWaiter(t) == \A u \in Threads \ {t} : mock.threads[u].calls = 0

\* C21: on a provider that a single thread waits on, whatever the timeouts
\* and however the calls interleave, the wait_for_data calls that returned
\* true never outnumber the signal_data_ready calls.
C21_AutoResetConsumption == OnlyWaiter(1) => mock.trues <= mock.signals

\* C22: of the waits that were blocked when one signal_data_ready call was
\* made, at most one returns true.
C22_OneWaiterPerSignal == \A k \in 1..MaxSignals : mock.released[k] <= 1

\* C23: a wait of the mock that is blocked in wait_timeout, its timeout not
\* yet elapsed, when signal_data_ready is called is released by that call
\* and returns true.
C23_MockWakesAll ==
    \A t \in Threads :
        LET th == mock.threads[t]
        IN  /\ th.present.some => (th.pc = "woken" /\ ~th.timed_out)
            /\ (th.pc = "idle" /\ th.by.some) => th.ret = Some(TRUE)

\* every thread was blocked in its first wait when the one signal was given,
\* and every one of them returned true
C23_Witness ==
    /\ MaxThreads > 1
    /\ mock.signals = 1
    /\ \A t \in Threads :
         /\ mock.threads[t].calls = 1 /\ mock.threads[t].pc = "idle"
         /\ mock.threads[t].by = Some(1)
         /\ mock.threads[t].ret = Some(TRUE)
    /\ mock.trues = MaxThreads

(* ------------------------------------------------------------------------ *)
(* The Receiver under arbitrary datagrams (SpecForged)                      *)
(* ------------------------------------------------------------------------ *)

\* the number of set bits of a bit-set
popcount(bits) == Cardinality({i \in 1..Len(bits) : bits[i]})

\* the last call was given a datagram that holds a full header
FullHeader == last.called /\ Len(last.data) >= HEADER_SIZE

LastHeader == parse_header(last.data)

\* the last call started a reassembly
Started == FullHeader /\ is_different_sequence(last.before, LastHeader)

\* C24: whenever current_sequence is Some(s), the bit-set has length
\* total_fragments and the buffer length payload_size, both those of the header
\* of the datagram that started s (set by the call that started s, kept by
\* every later call), and received_fragments is the number of set bits.
C24_ReceiverInvariant ==
    /\ receiver.current_sequence.some =>
         /\ Len(receiver.fragments) = receiver.total_fragments
         /\ Len(receiver.buffer) = receiver.payload_size
         /\ receiver.received_fragments = popcount(receiver.fragments)
    /\ (Started /\ receiver.current_sequence.some) =>
         /\ receiver.current_sequence = Some(LastHeader.sequence)
         /\ receiver.total_fragments = LastHeader.fragments
         /\ receiver.payload_size = LastHeader.payload_size
    /\ (last.called /\ ~Started /\ receiver.current_sequence.some) =>
         /\ receiver.current_sequence = last.before.current_sequence
         /\ receiver.total_fragments = last.before.total_fragments
         /\ receiver.payload_size = last.before.payload_size

\* a reassembly started by a header that claims more fragments than the send
\* produced, two fragments of it received
C24_Witness ==
    /\ receiver.current_sequence.some /\ Len(sends) = 1
    /\ receiver.total_fragments > div_ceil(sends[1].len, MAX_PAYLOAD_SIZE)
    /\ receiver.received_fragments = 2
    /\ popcount(receiver.fragments) = 2
    /\ last.called /\ ~Started /\ last.copied

\* C25: for every datagram that passes the validation of process_datagram,
\* whatever datagrams came before and whatever fragment count its header
\* carries, the fragment index is smaller than the length of the bit-set, so
\* that the lookup and the update of the bit stay in range.
C25_BitSetIndexSafety ==
    (FullHeader /\ ~invalid_fragment(LastHeader)) =>
        /\ LastHeader.fragment < Len(receiver.fragments)
        /\ ~last.panicked

\* the Receiver right after a call that completed a payload
JustCompleted(r) ==
    /\ r.current_sequence = None
    /\ r.total_fragments > 0
    /\ r.received_fragments = r.total_fragments

\* the body of the datagram of the last call
LastBody == Slice(last.data, HEADER_SIZE, Len(last.data))

\* C26: the call in which received_fragments reaches total_fragments returns
\* the first payload_size bytes of the buffer and leaves current_sequence
\* None; the next datagram that holds a full header, whatever its sequence
\* number, starts a reassembly from nothing: sizes from its header, no bit
\* set and a zeroed buffer but for what this datagram itself contributes.
C26_CompletionResets ==
    /\ (last.called /\ last.ret.some) =>
         /\ ~last.panicked /\ last.copied
         /\ receiver.received_fragments = receiver.total_fragments
         /\ last.ret.value = Slice(receiver.buffer, 0, receiver.payload_size)
         /\ receiver.current_sequence = None
    /\ (last.called /\ ~last.panicked /\ receiver.current_sequence = None) =>
         (last.ret.some \/ last.before.current_sequence = None)
    /\ (FullHeader /\ last.before.current_sequence = None) =>
         /\ ~last.panicked
         /\ receiver.total_fragments = LastHeader.fragments
         /\ receiver.payload_size = LastHeader.payload_size
         /\ receiver.received_fragments = (IF last.copied THEN 1 ELSE 0)
         /\ receiver.fragments =
              [i \in 1..LastHeader.fragments |->
                  last.copied /\ i = LastHeader.fragment + 1]
         /\ receiver.buffer =
              (IF last.copied
               THEN copy_from_slice(resized(LastHeader.payload_size, 0),
                                    buffer_offset_of(LastHeader), LastBody)
               ELSE resized(LastHeader.payload_size, 0))
         /\ (receiver.current_sequence = None) <=> last.ret.some
         /\ ~last.ret.some => receiver.current_sequence = Some(LastHeader.sequence)

\* after a payload was completed, a fragment with the sequence number just
\* completed starts a reassembly of its own and is its first fragment
C26_Witness ==
    /\ FullHeader /\ ~last.panicked /\ JustCompleted(last.before)
    /\ Len(sends) = 1 /\ LastHeader.sequence = sends[1].sequence
    /\ last.before.total_fragments > 1
    /\ receiver.current_sequence = Some(sends[1].sequence)
    /\ receiver.received_fragments = 1 /\ last.copied

\* C27: a datagram shorter than the header makes process_datagram return
\* (None, false) and leaves every field of the Receiver as it was.
C27_ShortDatagram ==
    (last.called /\ Len(last.data) < HEADER_SIZE) =>
        /\ ~last.panicked
        /\ ~last.ret.some /\ ~last.sequence_changed /\ ~last.copied
        /\ receiver = last.before

\* a datagram of 19 bytes arrives while a reassembly is under way that has
\* latched a source time
C27_Witness ==
    /\ last.called /\ Len(last.data) = HEADER_SIZE - 1
    /\ last.before.current_sequence.some
    /\ last.before.received_fragments > 0
    /\ last.before.last_source_time_us # ZeroTime
    /\ receiver = last.before

\* the last call was given a fragment of the sequence under reassembly whose
\* bit was set already
DuplicateFragment ==
    /\ FullHeader
    /\ last.before.current_sequence = Some(LastHeader.sequence)
    /\ LastHeader.fragment < Len(last.before.fragments)
    /\ last.before.fragments[LastHeader.fragment + 1]

\* C28: a datagram of the current sequence whose fragment bit is set already
\* returns no payload and leaves the buffer, the bit-set, received_fragments
\* and current_sequence as they were.
C28_DuplicateFragment ==
    DuplicateFragment =>
        /\ ~last.panicked
        /\ ~last.ret.some /\ ~last.copied
        /\ ReassemblyOf(receiver) = ReassemblyOf(last.before)

\* the first of three fragments arrives a second time, with another body
C28_Witness ==
    /\ DuplicateFragment /\ ~invalid_fragment(LastHeader)
    /\ last.before.received_fragments = 1 /\ last.before.total_fragments > 2
    /\ LastBody # Slice(last.before.buffer, buffer_offset_of(LastHeader),
                        buffer_offset_of(LastHeader) + MAX_PAYLOAD_SIZE)
    /\ receiver.buffer = last.before.buffer

\* the fragment of the last call would end past the payload size of the
\* reassembly it belongs to
Overrun ==
    buffer_offset_of(LastHeader) + Len(LastBody) > receiver.payload_size

\* the bit of the last call's fragment and the count before the call looked
\* at the fragment: cleared by the start of a sequence, else as they were
BitBefore ==
    IF Started THEN FALSE ELSE last.before.fragments[LastHeader.fragment + 1]

CountBefore == IF Started THEN 0 ELSE last.before.received_fragments

\* C29: a valid fragment whose bytes would extend past the current
\* payload_size is dropped, its bit and received_fragments untouched; a copy
\* lies within the buffer, whose length it does not change, and a returned
\* payload has length payload_size.
C29_BufferBounds ==
    /\ (FullHeader /\ ~last.panicked /\ ~invalid_fragment(LastHeader)
          /\ Overrun) =>
         /\ ~last.ret.some /\ ~last.copied
         /\ receiver.fragments[LastHeader.fragment + 1] = BitBefore
         /\ receiver.received_fragments = CountBefore
         /\ receiver.buffer =
              (IF Started THEN resized(LastHeader.payload_size, 0)
               ELSE last.before.buffer)
    /\ (last.called /\ last.copied) =>
         /\ ~last.panicked
         /\ buffer_offset_of(LastHeader) + Len(LastBody) <= Len(receiver.buffer)
         /\ Len(receiver.buffer) = receiver.payload_size
         /\ ~Started => Len(receiver.buffer) = Len(last.before.buffer)
    /\ (last.called /\ last.ret.some) =>
         Len(last.ret.value) = receiver.payload_size

\* the last fragment of the reassembly under way arrives with a body one
\* byte too long and is dropped
C29_Witness ==
    /\ FullHeader /\ ~last.panicked /\ ~invalid_fragment(LastHeader)
    /\ Overrun /\ ~Started /\ ~BitBefore
    /\ last.before.received_fragments > 0
    /\ LastHeader.fragment + 1 = last.before.total_fragments
    /\ receiver = last.before

(* ------------------------------------------------------------------------ *)
(* The source time of a delivered sequence (Spec)                           *)
(* ------------------------------------------------------------------------ *)

\* last_source_time_us changes only in a call on a full header with fragment
\* 0, and then becomes the source time of that header
LatchedOnlyFromFragmentZero ==
    last.called =>
        receiver.last_source_time_us =
            (IF FullHeader /\ LastHeader.fragment = 0
             THEN LastHeader.source_time_us
             ELSE last.before.last_source_time_us)

\* the send calls that emitted the datagram of the last call
SendsOfLast ==
    {k \in 1..Len(sends) : \E i \in PositionsOf(k) : wire[i] = last.data}

\* C30: last_source_time_us changes only in a call whose datagram has a full
\* header with fragment 0, to the source time of that header, so that when a
\* sequence produced by a Sender completes, last_source_time_us is the time
\* given to the send call of that sequence.
C30_SourceTimeLatch ==
    /\ LatchedOnlyFromFragmentZero
    /\ (last.called /\ last.ret.some) =>
         \A k \in SendsOfLast : receiver.last_source_time_us = sends[k].t

(* ------------------------------------------------------------------------ *)
(* Errors of the Source (SpecSource)                                        *)
(* ------------------------------------------------------------------------ *)

\* C31: when the compression of a snapshot fails, the Source makes no
\* Sender::send call for that tick (no datagram emitted, the sequence not
\* advanced) and goes on with the shutdown check at the top of the loop,
\* holding the provider it held; run does not return.
C31_CompressionFailure ==
    /\ [](source.op = "compress_failed" =>
            /\ source.pc = "check"
            /\ source.telemetry.some /\ source.telemetry = source.prev
            /\ source.since_data = 0)
    /\ [][(source' # source /\ source'.op = "compress_failed") =>
            UNCHANGED <<sender, wire, sends, ok_sends>>]_vars

\* a compression failure on the tick after a snapshot was sent
C31_Witness ==
    /\ source.op = "compress_failed" /\ source.pc = "check"
    /\ Len(sends) = 1 /\ sends[1].ret.ok
    /\ sender.sequence = sends[1].after
    /\ source.telemetry.some

\* the send calls the Source has made
SourceSends == 1..Len(sends)

\* C32: a failed UDP send of any fragment, or a Failed result of
\* Telemetry::open() in the initial or the reconnect attach loop, makes run
\* return an error at once: the failed fragment is the last datagram handed
\* to the socket, the failed send the last send call, and a run that has
\* returned does nothing more.
C32_FatalErrors ==
    /\ [](source.op \in {"send_failed", "open_failed"} =>
            source.pc = "done_err")
    /\ [](\A k \in SourceSends :
            ~sends[k].ret.ok =>
                /\ source.pc = "done_err" /\ source.op = "send_failed"
                /\ k = Len(sends)
                /\ sends[k].fail_at.some
                /\ sends[k].count = sends[k].fail_at.value
                /\ sends[k].calls = sends[k].count + 1
                /\ Len(wire) = sends[k].first + sends[k].count)
    /\ [][SourceDone(source.pc) =>
            UNCHANGED <<source, sender, wire, sends, ok_sends>>]_vars

\* the second fragment of the second snapshot fails to send: run has returned
\* the error with one fragment of that snapshot on the wire
C32_Witness ==
    /\ Len(sends) = 2 /\ sends[1].ret.ok /\ ~sends[2].ret.ok
    /\ sends[2].fail_at = Some(1) /\ sends[2].count = 1
    /\ source.pc = "done_err" /\ source.op = "send_failed"
    /\ ~source.telemetry.some

\* the sequence numbers of the datagrams on the wire
WireSequences == {parse_header(wire[i]).sequence : i \in 1..Len(wire)}

\* C33: the Source makes at most one Sender::send call per wait_for_data
\* that returned true and none after a wait that returned false, so the
\* sequences on the wire never outnumber the successful waits, and
\* consecutive snapshots carry consecutive sequence numbers.
C33_OneSequencePerTick ==
    /\ [](Len(sends) <= source.ticks)
    /\ [](Cardinality(WireSequences) <= source.ticks)
    /\ [](\A k \in SourceSends :
            k < Len(sends) =>
                /\ sends[k].ret.ok
                /\ sends[k + 1].sequence = wrapping_add(sends[k].sequence))
    /\ [][sends' # sends =>
            /\ source.pc = "wait"
            /\ source'.op \in {"sent", "send_failed"}
            /\ Len(sends') = Len(sends) + 1
            /\ source'.ticks = Ticked(source.ticks)]_vars
    /\ [][(source' # source /\ source'.op \in {"wait_short", "reconnect"}) =>
            UNCHANGED <<sender, wire, sends, ok_sends>>]_vars

\* two ticks observed and sent: two sequences on the wire, numbered 0 and 1
C33_Witness ==
    /\ Len(sends) = 2 /\ sends[1].ret.ok /\ sends[2].ret.ok
    /\ sends[2].sequence = wrapping_add(sends[1].sequence)
    /\ Cardinality(WireSequences) = 2
    /\ source.ticks = 2 /\ source.op = "sent"

(* ------------------------------------------------------------------------ *)
(* Datagrams of two sequences interleaved (SpecAbandon)                     *)
(* ------------------------------------------------------------------------ *)

\* the header of the datagram of the j-th recorded call
LogHeader(j) == parse_header(wire[log[j].pos])

\* the last recorded call before the j-th whose datagram was of another
\* sequence than the j-th, 0 when there is none
LastForeignBefore(j) ==
    LET foreign == {i \in 1..(j - 1) :
                      LogHeader(i).sequence # LogHeader(j).sequence}
    IN  IF foreign = {} THEN 0
        ELSE CHOOSE i \in foreign : \A x \in foreign : x <= i

\* the fragment indices of the sequence of the j-th call that were processed
\* after the last datagram of another sequence, up to the j-th call
FragmentsSince(j) ==
    {LogHeader(i).fragment : i \in (LastForeignBefore(j) + 1)..j}

\* the last call was given a datagram of another sequence than the one under
\* reassembly
Interrupting ==
    /\ FullHeader /\ ~last.panicked
    /\ last.before.current_sequence.some
    /\ last.before.current_sequence.value # LastHeader.sequence

\* C34: a datagram whose sequence number differs from current_sequence,
\* older or newer, discards every fragment received so far; a payload of a
\* sequence is returned only by a call before which every fragment of that
\* sequence was processed since the last datagram of another sequence.
C34_CrossSequence ==
    /\ Interrupting =>
         /\ receiver.total_fragments = LastHeader.fragments
         /\ receiver.payload_size = LastHeader.payload_size
         /\ receiver.received_fragments = (IF last.copied THEN 1 ELSE 0)
         /\ last.copied => FreshWith(receiver, last.data)
         /\ receiver.current_sequence.some =>
              receiver.current_sequence.value = LastHeader.sequence
    /\ \A j \in Completions :
         /\ 0..(LogHeader(j).fragments - 1) \subseteq FragmentsSince(j)
         /\ \A k \in Calls :
              log[j].pos \in PositionsOf(k) => log[j].ret.value = sends[k].data

\* a datagram of the second sequence interrupts the first, whose two
\* fragments then arrive again and complete it
C34_Witness ==
    /\ Len(log) = 4 /\ Len(sends) = 2
    /\ log[1].pos \in PositionsOf(1) /\ ~log[1].ret.some
    /\ log[2].pos \in PositionsOf(2) /\ ~log[2].ret.some
    /\ log[3].pos \in PositionsOf(1) /\ ~log[3].ret.some
    /\ log[4].pos \in PositionsOf(1)
    /\ log[4].ret = Some(sends[1].data)
    /\ FragmentsSince(4) = {0, 1}

(* ------------------------------------------------------------------------ *)
(* Payloads across send calls (Spec)                                        *)
(* ------------------------------------------------------------------------ *)

\* C35: whatever the order, loss and duplication of the datagrams one Sender
\* emitted, those of a send that failed in emit included, every payload the
\* Receiver returns is the data of one send call.
C35_NoMixingAcrossSends ==
    (last.called /\ last.ret.some) =>
        \E k \in 1..Len(sends) : last.ret.value = sends[k].data

(* ------------------------------------------------------------------------ *)
(* The empty payload (SpecSender)                                           *)
(* ------------------------------------------------------------------------ *)

\* C36: a send of zero-length data emits no datagram, returns Ok(0) and
\* advances the sequence by one; every header on the wire has fragments >= 1
\* and fragment < fragments.
C36_EmptyPayload ==
    /\ \A k \in 1..Len(sends) :
         sends[k].len = 0 =>
             /\ sends[k].count = 0 /\ sends[k].calls = 0
             /\ sends[k].ret = Ok(0)
             /\ sends[k].after = wrapping_add(sends[k].sequence)
             /\ k < Len(sends) => sends[k + 1].sequence = sends[k].after
    /\ \A i \in 1..Len(wire) :
         /\ parse_header(wire[i]).fragments >= 1
         /\ parse_header(wire[i]).fragment < parse_header(wire[i]).fragments

\* an empty send from the last sequence number before the wrap, followed by
\* a send that puts datagrams of sequence 0 on the wire
C36_Witness ==
    /\ Len(sends) = 2 /\ sends[1].len = 0 /\ sends[1].ret = Ok(0)
    /\ sends[1].sequence = LastSequence /\ sends[1].first = 0
    /\ sends[2].sequence = FirstSequence /\ sends[2].ret.ok
    /\ Len(wire) = 3 /\ parse_header(wire[1]).sequence = FirstSequence

(* ------------------------------------------------------------------------ *)
(* The lifetime of the provider on the Target (SpecTarget)                  *)
(* ------------------------------------------------------------------------ *)

\* the iteration that created the provider is over and run holds the provider
JustCreated ==
    GotDatagram /\ target.it.created /\ target.telemetry.some

\* C37: when the Target holds a provider it has just created, last_update is
\* the time of the update of that iteration, decompressed and signalled
\* through the provider, also when the payload fails to decompress; and the
\* recv_from timeout of the next iteration, a second or so after the
\* creation, does not drop the provider.
C37_ProviderLifetime ==
    /\ [](JustCreated => target.it.updated /\ target.since_update = 0)
    /\ [][(JustCreated /\ target'.it.op = "timeout") =>
             target'.telemetry.some]_vars

====
